---- MODULE Spec2Model ----
(***************************************************************************)
(* docker_metrics_exporter (src/src/main.rs): `docker stats` lines are     *)
(* deserialized, their human-readable fields normalised by parse_stat, and *)
(* the result is either kept in seven Prometheus gauge vectors served on   *)
(* /metrics (pull variant) or written to InfluxDB (push variant).          *)
(*                                                                         *)
(* Strings the code parses are sequences of one-character strings.         *)
(* u64 values are little-endian sequences of base-1024 limbs (TLC's        *)
(* integers are 32 bits wide, 1024^3 bytes are not).                       *)
(***************************************************************************)
EXTENDS Integers, Sequences, FiniteSets, TLC

\* ------------------------------------------------------------------ bounds
\* longest numeric part of a generated size / percent string
MaxNumLen == 3
\* longest side of a generated composite "a / b" string
MaxSideNumLen == 1
\* number of lines the Stat Source delivers before it ends
MaxLines == 2
\* longest command line (arguments after the program name)
MaxArgs == 2

\* ------------------------------------------------------- string primitives
Digits == {"0", "1", "2", "3", "4", "5", "6", "7", "8", "9"}

DigitVal(c) ==
    CASE c = "0" -> 0 [] c = "1" -> 1 [] c = "2" -> 2 [] c = "3" -> 3
      [] c = "4" -> 4 [] c = "5" -> 5 [] c = "6" -> 6 [] c = "7" -> 7
      [] c = "8" -> 8 [] c = "9" -> 9

AllDigits(s) == \A i \in 1..Len(s) : s[i] \in Digits

RECURSIVE DigitsVal(_)
DigitsVal(s) ==
    IF Len(s) = 0 THEN 0
    ELSE DigitsVal(SubSeq(s, 1, Len(s) - 1)) * 10 + DigitVal(s[Len(s)])

\* str::ends_with
EndsWith(s, u) ==
    Len(s) >= Len(u) /\ SubSeq(s, Len(s) - Len(u) + 1, Len(s)) = u

\* str::trim (the only white space of the alphabet is the blank)
RECURSIVE TrimStart(_)
TrimStart(s) ==
    IF Len(s) > 0 /\ s[1] = " " THEN TrimStart(Tail(s)) ELSE s

RECURSIVE TrimEnd(_)
TrimEnd(s) ==
    IF Len(s) > 0 /\ s[Len(s)] = " " THEN TrimEnd(SubSeq(s, 1, Len(s) - 1)) ELSE s

Trim(s) == TrimEnd(TrimStart(s))

\* str::replace(',', ".")
ReplaceComma(s) == [i \in 1..Len(s) |-> IF s[i] = "," THEN "." ELSE s[i]]

\* str::trim_end_matches('%'): every trailing '%' is removed
RECURSIVE TrimEndPercent(_)
TrimEndPercent(s) ==
    IF Len(s) > 0 /\ s[Len(s)] = "%"
    THEN TrimEndPercent(SubSeq(s, 1, Len(s) - 1)) ELSE s

\* str::split('/') followed by map(trim): at least one piece, also for ""
RECURSIVE SplitSlash(_)
SplitSlash(s) ==
    LET cuts == {i \in 1..Len(s) : s[i] = "/"}
    IN  IF cuts = {} THEN <<Trim(s)>>
        ELSE LET p == CHOOSE i \in cuts : \A j \in cuts : i <= j
             IN  <<Trim(SubSeq(s, 1, p - 1))>> \o SplitSlash(SubSeq(s, p + 1, Len(s)))

\* ---------------------------------------------------------- u64 as limbs
Base == 1024

RECURSIVE ToLimbs(_)
ToLimbs(n) == IF n = 0 THEN <<>> ELSE <<n % Base>> \o ToLimbs(n \div Base)

RECURSIVE Strip(_)
Strip(x) ==
    IF Len(x) > 0 /\ x[Len(x)] = 0 THEN Strip(SubSeq(x, 1, Len(x) - 1)) ELSE x

\* x * 1024^e
ShiftLimbs(x, e) == IF x = <<>> THEN <<>> ELSE [i \in 1..e |-> 0] \o x

\* floor(x / 10), most significant limb first; rem is the running remainder
RECURSIVE DivTenFrom(_, _, _)
DivTenFrom(x, i, rem) ==
    IF i = 0 THEN <<>>
    ELSE LET cur == rem * Base + x[i]
         IN  DivTenFrom(x, i - 1, cur % 10) \o <<cur \div 10>>

DivTen(x) == Strip(DivTenFrom(x, Len(x), 0))

RECURSIVE DivPowTen(_, _)
DivPowTen(x, k) == IF k = 0 THEN x ELSE DivPowTen(DivTen(x), k - 1)

\* u64::MAX = 2^64 - 1 = 15 * 1024^6 + (1024^6 - 1)
U64Max == <<1023, 1023, 1023, 1023, 1023, 1023, 15>>

ExceedsU64(x) == Len(x) > 7 \/ (Len(x) = 7 /\ x[7] >= 16)

\* ------------------------------------------------------------------ f64
\* A finite f64 is [neg, d, k], the value (-1)^neg * d / 10^k.  Within the
\* bounds d * 1024^3 < 2^53, so the decimal is far from the 53-bit precision
\* of f64, the product by a power of two is exact, and truncation sees the
\* same integer part as the decimal arithmetic below.
F64Zero == [neg |-> FALSE, d |-> 0, k |-> 0]

\* one representation per value: 5.00 and 5.0 are the same f64, and so are
\* -0.0 and 0.0 for every comparison and cast the code makes
RECURSIVE NormF64(_)
NormF64(v) ==
    IF v.d = 0 THEN F64Zero
    ELSE IF v.k > 0 /\ v.d % 10 = 0
         THEN NormF64([neg |-> v.neg, d |-> v.d \div 10, k |-> v.k - 1])
         ELSE v

\* <f64 as FromStr>::from_str: [+-] digits [. digits], at least one digit,
\* nothing before or after.  Exponents and the words inf / nan need the
\* letters e, n, f, which no generated string holds.
ParseF64(s) ==
    LET signed == Len(s) > 0 /\ s[1] \in {"+", "-"}
        body   == IF signed THEN Tail(s) ELSE s
        dots   == {i \in 1..Len(body) : body[i] = "."}
        p      == IF dots = {} THEN Len(body) + 1
                  ELSE CHOOSE i \in dots : \A j \in dots : i <= j
        ip     == SubSeq(body, 1, p - 1)
        fp     == SubSeq(body, p + 1, Len(body))
    IN  IF AllDigits(ip) /\ AllDigits(fp) /\ Len(ip) + Len(fp) > 0
        THEN [ok |-> TRUE,
              val |-> NormF64([neg |-> signed /\ s[1] = "-",
                               d |-> DigitsVal(ip \o fp), k |-> Len(fp)])]
        ELSE [ok |-> FALSE, val |-> F64Zero]

\* Result::unwrap_or(0.0)
UnwrapOrZero(r) == IF r.ok THEN r.val ELSE F64Zero

\* (num * factor as f64) as u64 with factor = 1024^e: the cast truncates
\* toward zero, maps negative values to 0 and saturates at u64::MAX
MulFactorAsU64(num, e) ==
    IF num.neg THEN <<>>
    ELSE LET q == DivPowTen(ShiftLimbs(ToLimbs(num.d), e), num.k)
         IN  IF ExceedsU64(q) THEN U64Max ELSE q

\* ------------------------------------------------------------- the parser
\* Units with the shortest suffix tested first
UnitsShortestFirst ==
    << [unit |-> <<"B">>,           exp |-> 0],
       [unit |-> <<"k", "B">>,      exp |-> 1],
       [unit |-> <<"M", "i", "B">>, exp |-> 2],
       [unit |-> <<"G", "i", "B">>, exp |-> 3] >>

\* the units array of parse_bytes, in its order; exp is the power of 1024
Units ==
    << [unit |-> <<"G", "i", "B">>, exp |-> 3],
       [unit |-> <<"M", "i", "B">>, exp |-> 2],
       [unit |-> <<"k", "B">>,      exp |-> 1],
       [unit |-> <<"B">>,           exp |-> 0] >>

\* the number before a matched unit, as parse_bytes reads it
NumberBefore(s, unit) ==
    UnwrapOrZero(ParseF64(ReplaceComma(Trim(SubSeq(s, 1, Len(s) - Len(unit))))))

RECURSIVE ParseBytesFrom(_, _)
ParseBytesFrom(s, i) ==
    IF i > Len(Units) THEN <<>>
    ELSE IF EndsWith(s, Units[i].unit)
         THEN MulFactorAsU64(NumberBefore(s, Units[i].unit), Units[i].exp)
         ELSE ParseBytesFrom(s, i + 1)

parse_bytes(s) == ParseBytesFrom(s, 1)

\* parse_io taking the last part for the second side
parse_io_last_part(s) ==
    LET parts == SplitSlash(s)
        a == IF Len(parts) >= 1 THEN parse_bytes(parts[1]) ELSE <<>>
        b == parse_bytes(parts[Len(parts)])
    IN  <<a, b>>

parse_io(s) ==
    LET parts == SplitSlash(s)
        a == IF Len(parts) >= 1 THEN parse_bytes(parts[1]) ELSE <<>>
        b == IF Len(parts) >= 2 THEN parse_bytes(parts[2]) ELSE <<>>
    IN  <<a, b>>

\* the cpu expression of parse_stat
parse_percent(s) == UnwrapOrZero(ParseF64(ReplaceComma(TrimEndPercent(s))))

\* parse_stat reading the limit from the first part of MemUsage
parse_stat_limit_from_usage(stat) ==
    LET mem_parts == SplitSlash(stat.mem_usage)
        mem_usage == parse_bytes(IF Len(mem_parts) >= 1 THEN mem_parts[1] ELSE <<"0">>)
        net == parse_io(stat.net_io)
        blk == parse_io(stat.block_io)
    IN  <<parse_percent(stat.cpu_perc), mem_usage, mem_usage,
          net[1], net[2], blk[1], blk[2]>>

\* (cpu, mem_usage, mem_limit, net_in, net_out, blk_read, blk_write)
parse_stat(stat) ==
    LET mem_parts == SplitSlash(stat.mem_usage)
        mem_usage == parse_bytes(IF Len(mem_parts) >= 1 THEN mem_parts[1] ELSE <<"0">>)
        mem_limit == parse_bytes(IF Len(mem_parts) >= 2 THEN mem_parts[2] ELSE <<"0">>)
        net == parse_io(stat.net_io)
        blk == parse_io(stat.block_io)
    IN  <<parse_percent(stat.cpu_perc), mem_usage, mem_limit,
          net[1], net[2], blk[1], blk[2]>>

\* gauge.set(v as f64) for a u64 v.  Every u64 the parser returns is the
\* truncation of an f64 and converts back exactly, except the saturated
\* u64::MAX, which rounds up to 2^64.
U64AsF64(v) == IF v = U64Max THEN <<0, 0, 0, 0, 0, 0, 16>> ELSE v

\* ------------------------------------------------------- deserialization
\* A line of the Stat Source is [valid, members]: valid is whether serde_json
\* parses it as a JSON object, members its key/value pairs in order, a value
\* being [str, s] (str: it is a JSON string).
FieldNames == <<"Name", "CPUPerc", "MemUsage", "NetIO", "BlockIO">>

Member(key, s) == [key |-> key, str |-> TRUE, s |-> s]

Occurrences(line, key) == {i \in 1..Len(line.members) : line.members[i].key = key}

FieldValue(line, key) ==
    line.members[CHOOSE i \in Occurrences(line, key) : TRUE].s

\* serde_json::from_str::<DockerStat>: Err for invalid JSON, for a missing or
\* duplicated field and for a field that is no string; other keys are ignored
Deserialize(line) ==
    IF line.valid
       /\ \A j \in 1..Len(FieldNames) :
             /\ Cardinality(Occurrences(line, FieldNames[j])) = 1
             /\ \A i \in Occurrences(line, FieldNames[j]) : line.members[i].str
    THEN [ok |-> TRUE,
          stat |-> [name      |-> FieldValue(line, "Name"),
                    cpu_perc  |-> FieldValue(line, "CPUPerc"),
                    mem_usage |-> FieldValue(line, "MemUsage"),
                    net_io    |-> FieldValue(line, "NetIO"),
                    block_io  |-> FieldValue(line, "BlockIO")]]
    ELSE [ok |-> FALSE]

\* ------------------------------------------------------ argument parsing
TokTarget     == <<"-", "-", "t", "a", "r", "g", "e", "t">>
TokPortLong   == <<"-", "-", "p", "o", "r", "t">>
TokPortShort  == <<"-", "p">>
TokHost       == <<"-", "-", "h", "o", "s", "t">>
TokDb         == <<"-", "-", "d", "b">>
TokHelpShort  == <<"-", "h">>
TokHelpLong   == <<"-", "-", "h", "e", "l", "p">>
Prometheus    == <<"p", "r", "o", "m", "e", "t", "h", "e", "u", "s">>
Influxdb      == <<"i", "n", "f", "l", "u", "x", "d", "b">>
Localhost     == <<"l", "o", "c", "a", "l", "h", "o", "s", "t">>
MetricsDb     == <<"m", "e", "t", "r", "i", "c", "s">>

DefaultPort == 9187
U16Max == 65535

\* str::parse::<u16>: an optional '+', then digits only, no overflow
ParseU16(s) ==
    LET body == IF Len(s) > 0 /\ s[1] = "+" THEN Tail(s) ELSE s
    IN  IF Len(body) > 0 /\ AllDigits(body) /\ DigitsVal(body) <= U16Max
        THEN [ok |-> TRUE, val |-> DigitsVal(body)]
        ELSE [ok |-> FALSE, val |-> 0]

\* the locals of main before the loop; help: the loop returned through
\* usage(); arms: the arms of the match that rejected or skipped an argument
\* ("bad_port": the unwrap_or of line 127, "other": the `_` arm)
ArgDefaults ==
    [target |-> Prometheus, port |-> DefaultPort, host |-> Localhost,
     db |-> MetricsDb, help |-> FALSE, arms |-> {}]

\* the while loop of main over args[i]; args holds the arguments after the
\* program name, so its indices are the code's
RECURSIVE ArgLoop(_, _, _)
ArgLoop(a, i, st) ==
    IF i > Len(a) THEN st
    ELSE LET more == i + 1 <= Len(a)
         IN  CASE a[i] = TokTarget ->
                    IF more THEN ArgLoop(a, i + 2, [st EXCEPT !.target = a[i + 1]])
                    ELSE ArgLoop(a, i + 1, st)
               [] a[i] \in {TokPortLong, TokPortShort} ->
                    IF more
                    THEN ArgLoop(a, i + 2,
                           IF ParseU16(a[i + 1]).ok
                           THEN [st EXCEPT !.port = ParseU16(a[i + 1]).val]
                           ELSE [st EXCEPT !.port = DefaultPort,
                                           !.arms = @ \cup {"bad_port"}])
                    ELSE ArgLoop(a, i + 1, st)
               [] a[i] = TokHost ->
                    IF more THEN ArgLoop(a, i + 2, [st EXCEPT !.host = a[i + 1]])
                    ELSE ArgLoop(a, i + 1, st)
               [] a[i] = TokDb ->
                    IF more THEN ArgLoop(a, i + 2, [st EXCEPT !.db = a[i + 1]])
                    ELSE ArgLoop(a, i + 1, st)
               [] a[i] \in {TokHelpShort, TokHelpLong} -> [st EXCEPT !.help = TRUE]
               [] OTHER -> ArgLoop(a, i + 1, [st EXCEPT !.arms = @ \cup {"other"}])

ParseArgs(a) == ArgLoop(a, 1, ArgDefaults)

\* ------------------------------------------------------------ the inputs
TokBogus   == <<"b", "o", "g", "u", "s">>
TokPort80  == <<"8", "0">>
TokPortBig == <<"7", "0", "0", "0", "0">>

ArgTokens ==
    {TokTarget, Influxdb, TokBogus, TokPortShort, TokPort80, TokPortBig,
     TokHelpShort, TokDb}

SeqsUpTo(S, n) == UNION {[1..m -> S] : m \in 0..n}

\* every command line of at most MaxArgs tokens
Argv == SeqsUpTo(ArgTokens, MaxArgs)

\* one command line per branch of main's target selection
RunArgv == {<<>>, <<TokTarget, Influxdb>>, <<TokTarget, TokBogus>>}

NameWeb == <<"w", "e", "b">>
NameDb  == <<"d", "b">>

WebFirst ==
    [valid |-> TRUE,
     members |-> << Member("Name", NameWeb),
                    Member("CPUPerc", <<"5", ".", "0", "0", "%">>),
                    Member("MemUsage", <<"1", "0", "M", "i", "B", " ", "/", " ",
                                         "1", "0", "0", "M", "i", "B">>),
                    Member("NetIO", <<"1", "k", "B", " ", "/", " ", "2", "k", "B">>),
                    Member("BlockIO", <<"0", "B", " ", "/", " ", "0", "B">>) >>]

WebSecond ==
    [valid |-> TRUE,
     members |-> << Member("BlockIO", <<"8", "B", " ", "/", " ", "1", "M", "i", "B">>),
                    Member("Name", NameWeb),
                    Member("CPUPerc", <<"1", "2", ",", "5", "%">>),
                    Member("MemUsage", <<"1", ".", "5", "G", "i", "B", " ", "/", " ",
                                         "2", "G", "i", "B">>),
                    Member("NetIO", <<"1", ".", "2", "k", "B", " ", "/", " ",
                                      "3", ".", "4", "k", "B">>) >>]

\* malformed sub-fields, a one-sided composite, a unit the parser does not know
\* and a key the struct does not have
DbLine ==
    [valid |-> TRUE,
     members |-> << Member("ID", <<"a", "1">>),
                    Member("Name", NameDb),
                    Member("CPUPerc", <<"-", "-">>),
                    Member("MemUsage", <<"5", "M", "i", "B">>),
                    Member("NetIO", <<"-", "-", " ", "/", " ", "7", "k", "B">>),
                    Member("BlockIO", <<"1", "M", "B", " ", "/", " ", "2", "B">>) >>]

\* not JSON
Garbage == [valid |-> FALSE, members |-> <<>>]

\* a JSON object without Name
NoName == [valid |-> TRUE, members |-> Tail(WebFirst.members)]

\* CPUPerc is a JSON number
NumberCpu ==
    [valid |-> TRUE,
     members |-> [WebFirst.members EXCEPT ![2] = [@ EXCEPT !.str = FALSE]]]

Lines == {WebFirst, WebSecond, DbLine, Garbage, NoName, NumberCpu}

Names == {NameWeb, NameDb}

\* the gauge vectors in the order Metrics::update sets them
FamOrder ==
    <<"cpu", "mem_usage", "mem_limit", "net_in", "net_out", "block_read", "block_write">>

Families == {FamOrder[i] : i \in 1..Len(FamOrder)}

\* the order in which gather() visits the vectors: that of the registry's
\* hash map, here the order of registration
GatherOrder == FamOrder

\* -------------------------------------------------------------- the state
VARIABLES
    args,           \* env::args() after the program name
    pc,             \* main: "start", "spawn", "select", "serve", "influx", "exit"
    target, port, host, db,     \* main's locals after the argument loop
    usage_printed,  \* usage() has written to stderr
    exit_code,      \* <<>> while the process runs, <<c>> after it ended with c
    child,          \* the docker stats child is spawned
    src,            \* the Stat Source as the reader saw it: "open", "eof", "err"
    consumed,       \* the lines next_line() has returned so far
    task,           \* the update task: "none", "read", "update", "done"
    upd,            \* the update in progress: name, parse_stat's values, next set
    locked,         \* the tokio Mutex around Metrics is held
    gauges,         \* gauges[f][n]: <<>> no child for label n, <<v>> its value
    http,           \* the /metrics handler: "down", "idle", "gather"
    snap,           \* snap[f]: <<>> family not collected yet, <<m>> as collected
    sink,           \* the write attempts made to InfluxDB, in order
    errlog,         \* number of "InfluxDB write error" lines on stderr
    pin, pout       \* argument and result of a call of a parser function

vars ==
    <<args, pc, target, port, host, db, usage_printed, exit_code, child, src,
      consumed, task, upd, locked, gauges, http, snap, sink, errlog, pin, pout>>

mainVars == <<args, pc, target, port, host, db, usage_printed, exit_code, child>>
pullVars == <<task, upd, locked, gauges, http, snap>>
pushVars == <<sink, errlog>>
callVars == <<pin, pout>>

NoUpdate == [name |-> <<>>, vals |-> <<>>, i |-> 0]
NoCall   == [call |-> "none"]
Running  == exit_code = <<>>

InitProgram ==
    /\ pc = "start"
    /\ target = ArgDefaults.target /\ port = ArgDefaults.port
    /\ host = ArgDefaults.host /\ db = ArgDefaults.db
    /\ usage_printed = FALSE /\ exit_code = <<>> /\ child = FALSE
    /\ src = "open" /\ consumed = <<>>
    /\ task = "none" /\ upd = NoUpdate /\ locked = FALSE
    /\ gauges = [f \in Families |-> [n \in Names |-> <<>>]]
    /\ http = "down" /\ snap = [f \in Families |-> <<>>]
    /\ sink = <<>> /\ errlog = 0

Init == args \in RunArgv /\ InitProgram /\ pin = NoCall /\ pout = <<>>

\* ------------------------------------------------------------------ main
\* lines 117-134: the argument loop; -h prints the usage and returns Ok(())
ParseArguments ==
    /\ pc = "start"
    /\ LET st == ParseArgs(args)
       IN  IF st.help
           THEN /\ usage_printed' = TRUE /\ exit_code' = <<0>> /\ pc' = "exit"
                /\ UNCHANGED <<target, port, host, db>>
           ELSE /\ target' = st.target /\ port' = st.port
                /\ host' = st.host /\ db' = st.db /\ pc' = "spawn"
                /\ UNCHANGED <<usage_printed, exit_code>>
    /\ UNCHANGED <<args, child, src, consumed>>
    /\ UNCHANGED <<pullVars, pushVars, callVars>>

\* lines 137-145: spawn docker stats; expect() panics when the spawn fails
SpawnDockerStats ==
    /\ pc = "spawn"
    /\ \E spawned \in BOOLEAN :
         IF spawned
         THEN child' = TRUE /\ pc' = "select" /\ UNCHANGED exit_code
         ELSE exit_code' = <<101>> /\ pc' = "exit" /\ UNCHANGED child
    /\ UNCHANGED <<args, target, port, host, db, usage_printed, src, consumed>>
    /\ UNCHANGED <<pullVars, pushVars, callVars>>

\* SelectTarget leaving with status 1 on an unknown target
SelectTargetExitsNonZero ==
    /\ pc = "select"
    /\ \E bound \in BOOLEAN :
         IF target = Prometheus
         THEN IF bound
              THEN /\ pc' = "serve" /\ task' = "read" /\ http' = "idle"
                   /\ UNCHANGED <<usage_printed, exit_code>>
              ELSE /\ pc' = "exit" /\ exit_code' = <<101>>
                   /\ UNCHANGED <<usage_printed, task, http>>
         ELSE IF target = Influxdb
              THEN /\ pc' = "influx"
                   /\ UNCHANGED <<usage_printed, exit_code, task, http>>
              ELSE /\ usage_printed' = TRUE /\ exit_code' = <<1>> /\ pc' = "exit"
                   /\ UNCHANGED <<task, http>>
    /\ UNCHANGED <<args, target, port, host, db, child, src, consumed>>
    /\ UNCHANGED <<upd, locked, gauges, snap, pushVars, callVars>>

\* lines 147-154, 164-177, 199-203: the branch on target.  prometheus
\* registers the gauges, spawns the update task and serves /metrics
\* (warp's run() panics when it cannot bind the port); influxdb enters the
\* write loop; anything else prints the usage and returns Ok(()).
SelectTarget ==
    /\ pc = "select"
    /\ \E bound \in BOOLEAN :
         IF target = Prometheus
         THEN IF bound
              THEN /\ pc' = "serve" /\ task' = "read" /\ http' = "idle"
                   /\ UNCHANGED <<usage_printed, exit_code>>
              ELSE /\ pc' = "exit" /\ exit_code' = <<101>>
                   /\ UNCHANGED <<usage_printed, task, http>>
         ELSE IF target = Influxdb
              THEN /\ pc' = "influx"
                   /\ UNCHANGED <<usage_printed, exit_code, task, http>>
              ELSE /\ usage_printed' = TRUE /\ exit_code' = <<0>> /\ pc' = "exit"
                   /\ UNCHANGED <<task, http>>
    /\ UNCHANGED <<args, target, port, host, db, child, src, consumed>>
    /\ UNCHANGED <<upd, locked, gauges, snap, pushVars, callVars>>

\* ------------------------------------------------------ the pull variant
\* NextLine ending the task at a line that does not deserialize
NextLineStopsOnBadLine ==
    /\ Running /\ task = "read" /\ src = "open" /\ Len(consumed) < MaxLines
    /\ \E line \in Lines :
         /\ consumed' = Append(consumed, line)
         /\ LET r == Deserialize(line)
            IN  IF r.ok
                THEN /\ task' = "update" /\ locked' = TRUE
                     /\ upd' = [name |-> r.stat.name, vals |-> parse_stat(r.stat),
                                i |-> 1]
                ELSE task' = "done" /\ UNCHANGED <<locked, upd>>
    /\ UNCHANGED <<mainVars, src, gauges, http, snap, pushVars, callVars>>

\* lines 155-158 and 103: next_line() returns a line; when it deserializes,
\* the task takes the lock and update() computes parse_stat
NextLine ==
    /\ Running /\ task = "read" /\ src = "open" /\ Len(consumed) < MaxLines
    /\ \E line \in Lines :
         /\ consumed' = Append(consumed, line)
         /\ LET r == Deserialize(line)
            IN  IF r.ok
                THEN /\ task' = "update" /\ locked' = TRUE
                     /\ upd' = [name |-> r.stat.name, vals |-> parse_stat(r.stat),
                                i |-> 1]
                ELSE UNCHANGED <<task, locked, upd>>
    /\ UNCHANGED <<mainVars, src, gauges, http, snap, pushVars, callVars>>

\* the value update() hands to set(): cpu as it is, the others `as f64`
GaugeValue(i, v) == IF i = 1 THEN v ELSE U64AsF64(v)

\* UpdateSet setting block_write from blk_read
UpdateSetCopiesBlockRead ==
    /\ Running /\ task = "update"
    /\ gauges' = [gauges EXCEPT ![FamOrder[upd.i]][upd.name] =
                    <<GaugeValue(upd.i, upd.vals[IF upd.i = 7 THEN 6 ELSE upd.i])>>]
    /\ IF upd.i = Len(FamOrder)
       THEN task' = "read" /\ locked' = FALSE /\ upd' = NoUpdate
       ELSE upd' = [upd EXCEPT !.i = @ + 1] /\ UNCHANGED <<task, locked>>
    /\ UNCHANGED <<mainVars, src, consumed, http, snap, pushVars, callVars>>

\* UpdateSet dropping the other children of the vector it sets
UpdateSetResetsFamily ==
    /\ Running /\ task = "update"
    /\ gauges' = [gauges EXCEPT ![FamOrder[upd.i]] =
                    [n \in Names |-> IF n = upd.name
                                     THEN <<GaugeValue(upd.i, upd.vals[upd.i])>>
                                     ELSE <<>>]]
    /\ IF upd.i = Len(FamOrder)
       THEN task' = "read" /\ locked' = FALSE /\ upd' = NoUpdate
       ELSE upd' = [upd EXCEPT !.i = @ + 1] /\ UNCHANGED <<task, locked>>
    /\ UNCHANGED <<mainVars, src, consumed, http, snap, pushVars, callVars>>

\* lines 104-110: one with_label_values(&[name]).set(..); after the seventh
\* update() returns and the guard is dropped
UpdateSet ==
    /\ Running /\ task = "update"
    /\ gauges' = [gauges EXCEPT ![FamOrder[upd.i]][upd.name] =
                                   <<GaugeValue(upd.i, upd.vals[upd.i])>>]
    /\ IF upd.i = Len(FamOrder)
       THEN task' = "read" /\ locked' = FALSE /\ upd' = NoUpdate
       ELSE upd' = [upd EXCEPT !.i = @ + 1] /\ UNCHANGED <<task, locked>>
    /\ UNCHANGED <<mainVars, src, consumed, http, snap, pushVars, callVars>>

\* TaskSourceEnd taking the process down with the task
TaskSourceEndExits ==
    /\ Running /\ task = "read" /\ src = "open"
    /\ \E how \in {"eof", "err"} : src' = how
    /\ task' = "done" /\ pc' = "exit" /\ exit_code' = <<0>>
    /\ UNCHANGED <<args, target, port, host, db, usage_printed, child>>
    /\ UNCHANGED <<consumed, upd, locked, gauges, http, snap>>
    /\ UNCHANGED <<pushVars, callVars>>

\* line 155: next_line() returns Ok(None) or Err: the loop and the task end
TaskSourceEnd ==
    /\ Running /\ task = "read" /\ src = "open"
    /\ \E how \in {"eof", "err"} : src' = how
    /\ task' = "done"
    /\ UNCHANGED <<mainVars, consumed, upd, locked, gauges, http, snap>>
    /\ UNCHANGED <<pushVars, callVars>>

\* line 164: a GET /metrics arrives
Request ==
    /\ Running /\ http = "idle"
    /\ http' = "gather" /\ snap' = [f \in Families |-> <<>>]
    /\ UNCHANGED <<mainVars, src, consumed, task, upd, locked, gauges>>
    /\ UNCHANGED <<pushVars, callVars>>

\* line 165: registry.gather() collects the registered vectors one after the
\* other, each as it is at that moment, without taking the Mutex
GatherFamily ==
    /\ Running /\ http = "gather"
    /\ \E i \in 1..Len(GatherOrder) :
         /\ snap[GatherOrder[i]] = <<>>
         /\ \A j \in 1..(i - 1) : snap[GatherOrder[j]] # <<>>
         /\ snap' = [snap EXCEPT ![GatherOrder[i]] = <<gauges[GatherOrder[i]]>>]
    /\ UNCHANGED <<mainVars, src, consumed, task, upd, locked, gauges, http>>
    /\ UNCHANGED <<pushVars, callVars>>

Gathered == http = "gather" /\ \A f \in Families : snap[f] # <<>>

\* lines 166-170: the collected families are encoded and sent
Respond ==
    /\ Running /\ Gathered
    /\ http' = "idle" /\ snap' = [f \in Families |-> <<>>]
    /\ UNCHANGED <<mainVars, src, consumed, task, upd, locked, gauges>>
    /\ UNCHANGED <<pushVars, callVars>>

\* ------------------------------------------------------ the push variant
\* InfluxLine returning the error of a failed write from main
InfluxLineStopsOnWriteError ==
    /\ Running /\ pc = "influx" /\ src = "open" /\ Len(consumed) < MaxLines
    /\ \E line \in Lines, written \in BOOLEAN :
         /\ consumed' = Append(consumed, line)
         /\ LET r == Deserialize(line)
            IN  IF r.ok
                THEN /\ sink' = Append(sink, [name |-> r.stat.name,
                                              vals |-> parse_stat(r.stat),
                                              ok |-> written])
                     /\ errlog' = IF written THEN errlog ELSE errlog + 1
                     /\ IF written THEN UNCHANGED <<pc, exit_code>>
                        ELSE pc' = "exit" /\ exit_code' = <<1>>
                ELSE UNCHANGED <<sink, errlog, pc, exit_code>>
    /\ UNCHANGED <<args, target, port, host, db, usage_printed, child>>
    /\ UNCHANGED <<src, pullVars, callVars>>

\* lines 180-197: one iteration of the loop: a line is read; when it
\* deserializes, one point is written, and a failed write is logged
InfluxLine ==
    /\ Running /\ pc = "influx" /\ src = "open" /\ Len(consumed) < MaxLines
    /\ \E line \in Lines, written \in BOOLEAN :
         /\ consumed' = Append(consumed, line)
         /\ LET r == Deserialize(line)
            IN  IF r.ok
                THEN /\ sink' = Append(sink, [name |-> r.stat.name,
                                              vals |-> parse_stat(r.stat),
                                              ok |-> written])
                     /\ errlog' = IF written THEN errlog ELSE errlog + 1
                ELSE UNCHANGED <<sink, errlog>>
    /\ UNCHANGED <<mainVars, src, pullVars, callVars>>

\* lines 180, 203: next_line() returns Ok(None) or Err: the loop ends and
\* main returns Ok(())
InfluxSourceEnd ==
    /\ Running /\ pc = "influx" /\ src = "open"
    /\ \E how \in {"eof", "err"} : src' = how
    /\ pc' = "exit" /\ exit_code' = <<0>>
    /\ UNCHANGED <<args, target, port, host, db, usage_printed, child, consumed>>
    /\ UNCHANGED <<pullVars, pushVars, callVars>>

Next ==
    \/ ParseArguments \/ SpawnDockerStats \/ SelectTarget
    \/ NextLine \/ UpdateSet \/ TaskSourceEnd
    \/ Request \/ GatherFamily \/ Respond
    \/ InfluxLine \/ InfluxSourceEnd

Spec == Init /\ [][Next]_vars

\* ---------------------------------------------- startup on every command line
InitArgs == args \in Argv /\ InitProgram /\ pin = NoCall /\ pout = <<>>

NextStartup == ParseArguments \/ SpawnDockerStats \/ SelectTarget

SpecArgs == InitArgs /\ [][NextStartup]_vars

\* ------------------------------------------------- the parser on its own
UnitB   == <<"B">>
UnitKB  == <<"k", "B">>
UnitMiB == <<"M", "i", "B">>
UnitGiB == <<"G", "i", "B">>
KnownUnits == {UnitB, UnitKB, UnitMiB, UnitGiB}

\* what docker also prints, and what is left when a unit is cut short
OtherUnits == {<<>>, <<"M", "B">>, <<"K", "i", "B">>, <<"k">>}

NumAlphabet == {"0", "1", "2", ".", ",", "-", " "}
NumStrings  == SeqsUpTo(NumAlphabet, MaxNumLen)

SideAlphabet == {"1", "2", ",", "-", " "}
SideUnits    == {<<>>, UnitB, UnitKB, <<"M", "B">>}
Sides ==
    {n \o u : n \in SeqsUpTo(SideAlphabet, MaxSideNumLen), u \in SideUnits}
Separators == {<<>>, <<"/">>, <<" ", "/", " ">>}

PercentSuffixes == {<<>>, <<"%">>, <<"%", "%">>}

FewPercents   == {<<"5", ".", "0", "0", "%">>, <<"-", "-">>}
FewComposites == {<<"1", "k", "B", " ", "/", " ", "2", "k", "B">>, <<"-", "-">>}
FewMems ==
    {<<"1", "0", "M", "i", "B", " ", "/", " ", "2", "G", "i", "B">>,
     <<"1", "0", "M", "i", "B">>}

BytesCalls ==
    [call : {"parse_bytes"}, num : NumStrings, unit : KnownUnits \cup OtherUnits]
IoCalls ==
    [call : {"parse_io"}, left : Sides, sep : Separators, right : Sides]
StatCalls ==
    [call : {"parse_stat"}, num : NumStrings, suffix : PercentSuffixes,
     mem_usage : FewMems, net_io : FewComposites, block_io : FewComposites]
    \cup
    [call : {"parse_stat"}, num : {<<"5">>}, suffix : {<<"%">>},
     mem_usage : {l \o s \o r : l \in Sides, s \in Separators, r \in Sides},
     net_io : FewComposites, block_io : {<<"0", "B", " ", "/", " ", "0", "B">>}]

\* the strings a call is made of
BytesArg(c) == c.num \o c.unit
IoArg(c)    == c.left \o c.sep \o c.right
StatArg(c)  ==
    [name |-> NameWeb, cpu_perc |-> c.num \o c.suffix, mem_usage |-> c.mem_usage,
     net_io |-> c.net_io, block_io |-> c.block_io]

InitParse ==
    /\ args = <<>> /\ InitProgram /\ pout = <<>>
    /\ \/ pin \in BytesCalls
       \/ pin \in IoCalls
       \/ pin \in StatCalls

CallParseBytes ==
    /\ pin.call = "parse_bytes" /\ pout = <<>>
    /\ pout' = <<parse_bytes(BytesArg(pin))>>
    /\ UNCHANGED <<mainVars, src, consumed, pullVars, pushVars, pin>>

CallParseIo ==
    /\ pin.call = "parse_io" /\ pout = <<>>
    /\ pout' = <<parse_io(IoArg(pin))>>
    /\ UNCHANGED <<mainVars, src, consumed, pullVars, pushVars, pin>>

CallParseStat ==
    /\ pin.call = "parse_stat" /\ pout = <<>>
    /\ pout' = <<parse_stat(StatArg(pin))>>
    /\ UNCHANGED <<mainVars, src, consumed, pullVars, pushVars, pin>>

NextParse == CallParseBytes \/ CallParseIo \/ CallParseStat

SpecParse == InitParse /\ [][NextParse]_vars

\* ======================================================= the properties
\* Deserialize and the gauge values of a sample, tabulated over the lines
DeserTable == [l \in Lines |-> Deserialize(l)]

DeserOk(line) == DeserTable[line].ok

\* the positions in the stream of the samples of container n
SamplesOf(n) ==
    {i \in 1..Len(consumed) :
        DeserOk(consumed[i]) /\ DeserTable[consumed[i]].stat.name = n}

LastIndex(n) == CHOOSE i \in SamplesOf(n) : \A j \in SamplesOf(n) : j <= i
LastLine(n) == consumed[LastIndex(n)]

\* the seven gauge values of a sample: cpu, then the six byte counts as f64
Normalized(stat) ==
    [j \in 1..Len(FamOrder) |->
        IF j = 1 THEN parse_stat(stat)[j] ELSE U64AsF64(parse_stat(stat)[j])]

NormTable ==
    [l \in Lines |->
        IF DeserTable[l].ok THEN Normalized(DeserTable[l].stat) ELSE <<>>]

\* the seven cells of container n in a family-indexed store
Entry(store, n) == [j \in 1..Len(FamOrder) |-> store[FamOrder[j]][n]]

Present(vals) == [j \in 1..Len(vals) |-> <<vals[j]>>]
Absent == [j \in 1..Len(FamOrder) |-> <<>>]

Between == task \in {"read", "done"}

\* the response of a finished gather()
Response == [f \in Families |-> snap[f][1]]

\* C1: every /metrics response gives, for each container, either nothing or
\* the seven values of one single sample of that container
C1_NoTornRead ==
    Gathered =>
        \A n \in Names :
            \/ Entry(Response, n) = Absent
            \/ \E i \in SamplesOf(n) :
                  Entry(Response, n) = Present(NormTable[consumed[i]])

\* C2: between two lines, the entry of every container seen so far is the
\* normalisation of its most recent sample, in all seven fields
C2_LastWriteWins ==
    Between =>
        \A n \in Names :
            SamplesOf(n) # {} =>
                Entry(gauges, n) = Present(NormTable[LastLine(n)])

C2_Witness ==
    /\ task = "read" /\ consumed = <<WebFirst, WebSecond>>
    /\ Entry(gauges, NameWeb) =
         Present(<< [neg |-> FALSE, d |-> 125, k |-> 1],
                    <<0, 0, 512, 1>>, <<0, 0, 0, 2>>, <<204, 1>>, <<409, 3>>,
                    <<8>>, <<0, 0, 1>> >>)

\* the ways a line fails to be a DockerStat: no JSON, or one of the five
\* fields is not there
FailsToDeserialize(line) ==
    \/ ~line.valid
    \/ \E j \in 1..Len(FieldNames) :
          \A i \in 1..Len(line.members) : line.members[i].key # FieldNames[j]

\* C3: a line that fails to deserialize changes neither the store nor the
\* sink nor the error log and leaves the loop reading; every line that
\* deserializes, whatever came before it, starts its update or is written
C3_BadLineIsDropped ==
    [][\A l \in Lines :
          consumed' = Append(consumed, l) =>
              /\ FailsToDeserialize(l) =>
                    /\ gauges' = gauges /\ sink' = sink /\ errlog' = errlog
                    /\ exit_code' = <<>> /\ src' = "open"
                    /\ \/ pc' = "serve" /\ task' = "read"
                       \/ pc' = "influx"
              /\ DeserOk(l) =>
                    \/ /\ pc' = "serve" /\ task' = "update"
                       /\ upd'.name = DeserTable[l].stat.name
                       /\ upd'.vals = parse_stat(DeserTable[l].stat)
                    \/ /\ pc' = "influx" /\ Len(sink') = Len(sink) + 1
                       /\ sink'[Len(sink')].name = DeserTable[l].stat.name]_vars

C3_Witness ==
    /\ task = "read" /\ Len(consumed) = 2
    /\ FailsToDeserialize(consumed[1]) /\ consumed[2] = WebFirst
    /\ Entry(gauges, NameWeb) = Present(NormTable[WebFirst])
    /\ Entry(gauges, NameDb) = Absent

\* C4 as stated: once the source has ended the process is still alive
C4_AliveAfterSourceEnd == src # "open" => exit_code = <<>>

\* C4, amended: after the source ended, the pull variant stays alive with the
\* task finished, the store frozen at the last ingested samples and every
\* family a request collects taken from that store; the push variant has
\* left its loop and main has returned Ok(()), exit status 0
C4_SourceEnd ==
    /\ [](src # "open" =>
            /\ target = Prometheus =>
                  /\ pc = "serve" /\ exit_code = <<>> /\ task = "done"
                  /\ http \in {"idle", "gather"}
                  /\ ENABLED (Request \/ GatherFamily \/ Respond)
                  /\ \A n \in Names :
                        Entry(gauges, n) =
                            IF SamplesOf(n) = {} THEN Absent
                            ELSE Present(NormTable[LastLine(n)])
            /\ target # Prometheus =>
                  /\ target = Influxdb /\ pc = "exit" /\ exit_code = <<0>>)
    /\ [][src # "open" =>
            /\ gauges' = gauges /\ sink' = sink /\ consumed' = consumed
            /\ exit_code' = exit_code
            /\ \A f \in Families :
                  snap'[f] # snap[f] /\ snap'[f] # <<>> => snap'[f] = <<gauges[f]>>]_vars

C4_Witness ==
    /\ src = "eof" /\ pc = "serve" /\ Gathered
    /\ consumed = <<WebFirst, DbLine>>
    /\ \A n \in Names : Entry(Response, n) = Present(NormTable[LastLine(n)])

\* C5: the sink has received one write attempt per deserialized line, in the
\* order of the lines, each with the line's name and normalized values; every
\* failed attempt is logged once and leaves the loop reading
C5_OneWritePerSample ==
    /\ [](target = Influxdb /\ pc \in {"influx", "exit"} =>
            LET good == SelectSeq(consumed, DeserOk)
            IN  /\ Len(sink) = Len(good)
                /\ \A i \in 1..Len(good) :
                      /\ sink[i].name = DeserTable[good[i]].stat.name
                      /\ sink[i].vals = parse_stat(DeserTable[good[i]].stat)
                /\ errlog = Cardinality({i \in 1..Len(sink) : ~sink[i].ok}))
    /\ [][Len(sink') > Len(sink) /\ ~sink'[Len(sink')].ok =>
            /\ pc' = "influx" /\ exit_code' = <<>> /\ src' = "open"
            /\ errlog' = errlog + 1]_vars

C5_Witness ==
    /\ pc = "influx" /\ consumed = <<WebFirst, WebSecond>> /\ Len(sink) = 2
    /\ ~sink[1].ok /\ sink[2].ok /\ errlog = 1
    /\ sink[2].name = NameWeb
    /\ sink[2].vals[1] = [neg |-> FALSE, d |-> 125, k |-> 1]
    /\ sink[2].vals[7] = <<0, 0, 1>>

\* C7: between two lines the entry under a sample's Name is parse_percent of
\* CPUPerc and the two sides of MemUsage, NetIO and BlockIO as byte sizes;
\* for the line of the spec it is (5.0, 10485760, 104857600, 1024, 2048, 0, 0)
RecordOf(s) ==
    << parse_percent(s.cpu_perc),
       U64AsF64(parse_io(s.mem_usage)[1]), U64AsF64(parse_io(s.mem_usage)[2]),
       U64AsF64(parse_io(s.net_io)[1]), U64AsF64(parse_io(s.net_io)[2]),
       U64AsF64(parse_io(s.block_io)[1]), U64AsF64(parse_io(s.block_io)[2]) >>

RecordTable ==
    [l \in Lines |-> IF DeserTable[l].ok THEN RecordOf(DeserTable[l].stat) ELSE <<>>]

C7_StoredRecord ==
    Between =>
        \A n \in Names :
            SamplesOf(n) # {} =>
                    /\ Entry(gauges, n) = Present(RecordTable[LastLine(n)])
                    /\ LastLine(n) = WebFirst =>
                          /\ n = NameWeb
                          /\ Entry(gauges, n) =
                                Present(<< [neg |-> FALSE, d |-> 5, k |-> 0],
                                           ToLimbs(10485760), ToLimbs(104857600),
                                           ToLimbs(1024), ToLimbs(2048),
                                           ToLimbs(0), ToLimbs(0) >>)

C7_Witness ==
    /\ task = "read" /\ consumed = <<WebFirst>>
    /\ Entry(gauges, NameWeb) =
          Present(<< [neg |-> FALSE, d |-> 5, k |-> 0], <<0, 0, 10>>, <<0, 0, 100>>,
                     <<0, 1>>, <<0, 2>>, <<>>, <<>> >>)

StoreNames == {n \in Names : \E f \in Families : gauges[f][n] # <<>>}
SeenNames  == {n \in Names : SamplesOf(n) # {}}

\* C10 as stated: in every state of the pull variant the names in the store
\* are the names deserialized so far
C10_NamesEqualInEveryState == pc = "serve" => StoreNames = SeenNames

\* C10, amended: the names in the store are always among the names
\* deserialized so far and equal to them whenever no update is in progress,
\* each with all seven fields; a cell changes only for the container being
\* updated and is never removed
C10_NamesOfStore ==
    /\ [](pc = "serve" =>
            /\ StoreNames \subseteq SeenNames
            /\ Cardinality(StoreNames) <= Cardinality(SeenNames)
            /\ Between =>
                  /\ StoreNames = SeenNames
                  /\ \A n \in StoreNames, f \in Families : gauges[f][n] # <<>>)
    /\ [][\A n \in Names, f \in Families :
            /\ gauges[f][n] # <<>> => gauges'[f][n] # <<>>
            /\ gauges'[f][n] # gauges[f][n] => task = "update" /\ upd.name = n]_vars

C10_Witness ==
    /\ task = "read" /\ consumed = <<DbLine, WebFirst>>
    /\ StoreNames = {NameDb, NameWeb}
    /\ Entry(gauges, NameDb) = Present(NormTable[DbLine])

\* the arguments the loop rejected or skipped, or a --target it does not know
ConfigError ==
    \/ ParseArgs(args).arms # {}
    \/ ParseArgs(args).target \notin {Prometheus, Influxdb}

\* C6 as stated: a configuration error ends the process at once with the
\* usage message and a non-zero status
C6_ConfigErrorIsFatal ==
    ConfigError /\ pc # "start" =>
        pc = "exit" /\ usage_printed /\ exit_code \notin {<<>>, <<0>>}

NoValidPort == \A i \in 1..Len(args) : ~ParseU16(args[i]).ok

\* C6, amended: with -h met by the loop the usage is printed and the status
\* is 0 before anything is spawned; otherwise a bad port value leaves the
\* port at 9187 and an unmatched argument is skipped, and startup goes on (the
\* only exit is the panic, status 101, of a failed spawn or bind); an unknown
\* --target is met after docker stats was spawned and ends the process with
\* the usage message and status 0, no task and no endpoint started
C6_ConfigErrorOutcome ==
    ConfigError =>
        LET st == ParseArgs(args)
        IN  /\ st.help =>
                  /\ pc \in {"start", "exit"}
                  /\ pc = "exit" => usage_printed /\ exit_code = <<0>> /\ ~child
            /\ ~st.help /\ st.target \in {Prometheus, Influxdb} =>
                  /\ ~usage_printed /\ exit_code \in {<<>>, <<101>>}
                  /\ pc # "start" /\ NoValidPort => port = DefaultPort
                  /\ pc = "exit" => exit_code = <<101>>
            /\ ~st.help /\ st.target \notin {Prometheus, Influxdb} =>
                  /\ pc \notin {"serve", "influx"} /\ task = "none" /\ http = "down"
                  /\ pc = "exit" =>
                        \/ exit_code = <<0>> /\ usage_printed /\ child
                        \/ exit_code = <<101>> /\ ~usage_printed /\ ~child

C6_Witness ==
    /\ args = <<TokTarget, TokBogus>> /\ pc = "exit"
    /\ exit_code = <<0>> /\ usage_printed /\ child

\* a decimal number: digits with at most one '.' or ',' among them
DecimalShape(num) ==
    /\ \A i \in 1..Len(num) : num[i] \in Digits \cup {".", ","}
    /\ \E i \in 1..Len(num) : num[i] \in Digits
    /\ Cardinality({i \in 1..Len(num) : num[i] \in {".", ","}}) <= 1

IsDigitChar(c) == c \in Digits

\* the digits of a decimal and the number of them after the separator
AllDigitsOf(num) == DigitsVal(SelectSeq(num, IsDigitChar))
FracDigits(num) ==
    Cardinality({i \in 1..Len(num) :
                    num[i] \in Digits /\ \E j \in 1..(i - 1) : num[j] \in {".", ","}})

UnitExp(u) ==
    CASE u = UnitB -> 0 [] u = UnitKB -> 1 [] u = UnitMiB -> 2 [] u = UnitGiB -> 3

\* C8: parse_bytes of <decimal><unit> is the decimal times 1, 1024, 1024^2 or
\* 1024^3, by the longest unit the string ends in, truncated
C8_ScaledByUnit ==
    pin.call = "parse_bytes" /\ pout # <<>> /\ pin.unit \in KnownUnits
    /\ DecimalShape(pin.num) =>
        /\ pout[1] = DivPowTen(ShiftLimbs(ToLimbs(AllDigitsOf(pin.num)),
                                          UnitExp(pin.unit)),
                               FracDigits(pin.num))
        /\ pin.num = <<"1", ".", "2">> /\ pin.unit = UnitKB => pout[1] = ToLimbs(1228)
        /\ pin.num = <<"2", ",", "1">> /\ pin.unit = UnitMiB => pout[1] = ToLimbs(2202009)
        /\ pin.num = <<"1">> /\ pin.unit = UnitGiB => pout[1] = ToLimbs(1073741824)
        /\ pin.num = <<"1", "2", "0">> /\ pin.unit = UnitB => pout[1] = ToLimbs(120)

C8_Witness ==
    /\ pin.call = "parse_bytes" /\ pin.num = <<"1", ".", "2">> /\ pin.unit = UnitGiB
    /\ pout = <<ToLimbs(1288490188)>>

\* what f64's parser takes of the alphabet: a decimal with an optional sign
SignedDecimalShape(s) ==
    DecimalShape(IF Len(s) > 0 /\ s[1] \in {"+", "-"} THEN SubSeq(s, 2, Len(s)) ELSE s)

\* the same between blanks, which parse_bytes trims
PaddedDecimalShape(s) ==
    \E a, b \in 1..Len(s) :
        /\ a <= b /\ SignedDecimalShape(SubSeq(s, a, b))
        /\ \A i \in 1..Len(s) : i < a \/ i > b => s[i] = " "

NoSlash(s) == \A i \in 1..Len(s) : s[i] # "/"

\* the four units end in B: no B is the last character before trailing blanks
NoUnitAtEnd(s) ==
    \A i \in 1..Len(s) : s[i] = "B" => \E j \in (i + 1)..Len(s) : s[j] # " "

FewExpected(s) ==
    IF s = <<"-", "-">> THEN << <<>>, <<>> >> ELSE << <<0, 1>>, <<0, 2>> >>

\* C9: no call fails; a size without one of the four units or with a number
\* that does not parse is 0, the missing side of a composite is 0, a percent
\* that does not parse is 0.0, and the other fields of the same sample are
\* what they are for a well-formed one
C9_MalformedIsZero ==
    /\ pin.call = "parse_bytes" /\ pout # <<>> =>
          (pin.unit \notin KnownUnits \/ ~PaddedDecimalShape(pin.num) => pout[1] = <<>>)
    /\ pin.call = "parse_io" /\ pout # <<>> =>
          /\ Len(pout[1]) = 2
          /\ NoSlash(IoArg(pin)) => pout[1][2] = <<>>
          /\ pin.sep # <<>> /\ NoUnitAtEnd(pin.left) => pout[1][1] = <<>>
          /\ pin.sep # <<>> /\ NoUnitAtEnd(pin.right) => pout[1][2] = <<>>
    /\ pin.call = "parse_stat" /\ pout # <<>> =>
          /\ Len(pout[1]) = Len(FamOrder)
          /\ ~SignedDecimalShape(pin.num) => pout[1][1] = F64Zero
          /\ NoSlash(pin.mem_usage) => pout[1][3] = <<>>
          /\ pin.mem_usage \in FewMems => pout[1][2] = <<0, 0, 10>>
          /\ <<pout[1][4], pout[1][5]>> = FewExpected(pin.net_io)
          /\ pin.block_io \in FewComposites =>
                <<pout[1][6], pout[1][7]>> = FewExpected(pin.block_io)

C9_Witness ==
    /\ pin.call = "parse_stat" /\ pin.num = <<"-", "-">> /\ pin.suffix = <<>>
    /\ pin.net_io = <<"-", "-">> /\ pin.block_io \in FewComposites \ {<<"-", "-">>}
    /\ pin.mem_usage = <<"1", "0", "M", "i", "B">>
    /\ pout = << <<F64Zero, <<0, 0, 10>>, <<>>, <<>>, <<>>, <<0, 1>>, <<0, 2>>>> >>

====
